---- MODULE Spec2Model ----
(***************************************************************************)
(* Model of the session/auth manager of meater_api (src/meater_api/api.py):*)
(* class MEATERAPI, its constructor, the persisted config file, the two    *)
(* requests sessions and the two lru_cache-memoized login methods.         *)
(*                                                                         *)
(* The program is single-threaded and synchronous.  A constructor call is  *)
(* split into its four steps (load_config, device identity, login,         *)
(* login_v1); while a constructor runs (ctor # 0) nothing else can run.    *)
(* The server is the environment: it answers every request with any status *)
(* and any body.                                                           *)
(***************************************************************************)
EXTENDS Integers, Sequences, FiniteSets, TLC

\* ---------------------------------------------------------------- bounds
NumClients == 2      \* MEATERAPI instances created in one process

Clients == 1..NumClients
PrimaryTokens == {"t1"}         \* bearer tokens of the primary API
V1Tokens == {"t2"}              \* bearer tokens of the secondary (v1) API
SuppliedIds == {"D1"}           \* device_id arguments of the constructor
PersistedIds == {"P1"}          \* device ids found in a config file at start
FreshIds == {"U1"}              \* results of str(uuid.uuid4()).upper()
Statuses == {200, 401}          \* HTTP status codes of the answers

\* ------------------------------------------------------- python values
None == "<None>"                \* Python's None (no string of the model)

\* f"{token}": str() of a value inside an f-string
Format(v) == IF v = None THEN "None" ELSE v

\* {"Authorization": f"Bearer {token}"}; a session without the header: <<>>
NoHeader == <<>>
Bearer(tok) == <<"Bearer", Format(tok)>>

\* requests.Session.headers.update({"Authorization": ...}) on a session
\* whose Authorization header is h: the new value replaces the old one
SetHeader(h, tok) == Bearer(tok)

\* ------------------------------------------------------------- JSON
\* a json.load that gives the text of a JSON value, null included
JsonLoadText(j) == j[Len(j)]

\* json.dump of a str or None, and json.load of the text it wrote
JsonDump(v) == IF v = None THEN <<"null">> ELSE <<"string", v>>

JsonLoad(j) == IF j[1] = "null" THEN None ELSE j[2]

\* A config file: absent, not decodable, or a JSON object (a set of
\* <<key, JSON value>> pairs).
NoFile == [kind |-> "absent", obj |-> {}]
Garbage == [kind |-> "undecodable", obj |-> {}]
Unread == [kind |-> "unread", obj |-> {}]
Object(o) == [kind |-> "object", obj |-> o]

HasKey(o, k) == \E p \in o : p[1] = k
Lookup(o, k) == (CHOOSE p \in o : p[1] = k)[2]

\* config.get(k): None for a key the object lacks
ConfigGetDefault(o, k) ==
    IF HasKey(o, k) THEN [raised |-> FALSE, value |-> JsonLoad(Lookup(o, k))]
    ELSE [raised |-> FALSE, value |-> None]

\* config[k] in load_config: the decoded value, or KeyError
ConfigGet(o, k) ==
    IF HasKey(o, k) THEN [raised |-> FALSE, value |-> JsonLoad(Lookup(o, k))]
    ELSE [raised |-> TRUE, value |-> None]

\* the dict save_config dumps
ConfigDict(tok, dev, tokv1) ==
    Object({<<"token", JsonDump(tok)>>,
            <<"device_id", JsonDump(dev)>>,
            <<"token_v1", JsonDump(tokv1)>>})

WellFormedFiles ==
    { ConfigDict(t, d, u) : t \in PrimaryTokens \cup {None}, d \in PersistedIds,
                            u \in V1Tokens \cup {None} }
MalformedFiles ==
    {Garbage} \cup
    { Object({p \in ConfigDict("t1", "P1", "t2").obj : p[1] # k}) :
        k \in {"token", "token_v1", "device_id"} }


\* ------------------------------------------------------------- server
\* requests.Response.raise_for_status: HTTPError for 4xx and 5xx
RaiseForStatus(st) == st >= 400 /\ st < 600

\* MEATERAPI._raise, the response hook of both sessions: what it returns
\* and the exception that leaves it.  The HTTPError of raise_for_status is
\* caught and logged, so no exception leaves the hook; a hook that returns
\* None leaves the response as it is.
raise_hook(st) ==
    [returned |-> IF RaiseForStatus(st) THEN None ELSE "res", exc |-> None]

\* The body of an answer to a login POST: not JSON, or a JSON object with
\* an "accessToken" member, a "data"/"token" member, or neither.
LoginBodies ==
    {[kind |-> "notjson", accessToken |-> None, dataToken |-> None],
     [kind |-> "json", accessToken |-> None, dataToken |-> None]}
    \cup {[kind |-> "json", accessToken |-> t, dataToken |-> None] : t \in PrimaryTokens}
    \cup {[kind |-> "json", accessToken |-> None, dataToken |-> t] : t \in V1Tokens}

\* The body of an answer to a GET: not JSON, JSON without the expected
\* member, the expected list with elements that validate, or with one that
\* does not.
GetBodies == {"notjson", "nodata", "valid", "invalid"}

\* .json() and the subscripts that follow it in login / login_v1: the
\* exception raised, or the token extracted
Extract(body, member) ==
    IF body.kind = "notjson" THEN [exc |-> "JSONDecodeError", tok |-> None]
    ELSE IF body[member] = None THEN [exc |-> "KeyError", tok |-> None]
    ELSE [exc |-> None, tok |-> body[member]]

\* .json()[...] and model_validate in get_cooks / get_live_devices
Decode(body) ==
    CASE body = "notjson" -> "JSONDecodeError"
      [] body = "nodata" -> "KeyError"
      [] body = "invalid" -> "ValidationError"
      [] OTHER -> "list"

\* ------------------------------------------------------------- state
VARIABLES
    file,            \* config.json
    pc,              \* per client: position of its constructor
    ctor,            \* the client whose constructor is running, 0 if none
    token,           \* self._token
    token_v1,        \* self._token_v1
    device_id,       \* self._device_id
    hdr,             \* Authorization header of self._sess
    hdr_v1,          \* Authorization header of self._sess_v1
    login_cache,     \* the one entry of login's lru_cache: a client, 0 if empty
    login_v1_cache,  \* the one entry of login_v1's lru_cache
    authSent,        \* per client and version: a login POST has been sent
    loginOK,         \* per client and version: a login has succeeded
    curTok,          \* per client and version: the token set last
    read,            \* per client: the file its constructor's load_config saw
    supplied,        \* per client: the device_id argument of its constructor,
                     \* None once the constructor is past the identity step
    last             \* the operation that ran last and what it did

vars == <<file, pc, ctor, token, token_v1, device_id, hdr, hdr_v1, login_cache,
          login_v1_cache, authSent, loginOK, curTok, read, supplied, last>>

\* last: op the operation, c its client, phase "ctor" or "call", outcome
\* "ok", "cached" (lru_cache hit), "noop" (early return), "list" or the
\* exception raised; req the request sent ("none": none), auth its
\* Authorization header, status the answer's status, dev the device id held
\* (for a login POST: sent in the body), tok the token extracted, cur the
\* token that was set for the request's API version when it was sent, was
\* whether a login for that version had succeeded before, gen whether a
\* device id was generated, rt whether a load_config ran right after a
\* save_config of the same client.
Ev(op, c, phase, outcome, req, auth, status, dev, tok, cur, was, gen) ==
    [op |-> op, c |-> c, phase |-> phase, outcome |-> outcome, req |-> req,
     auth |-> auth, status |-> status, dev |-> dev, tok |-> tok, cur |-> cur,
     was |-> was, gen |-> gen,
     rt |-> op = "load_config" /\ last.op = "save_config" /\ last.c = c]

Phase(c) == IF ctor = c THEN "ctor" ELSE "call"

Init ==
    /\ file \in {NoFile} \cup WellFormedFiles \cup MalformedFiles
    /\ pc = [c \in Clients |-> "unborn"]
    /\ ctor = 0
    /\ token = [c \in Clients |-> None]
    /\ token_v1 = [c \in Clients |-> None]
    /\ device_id = [c \in Clients |-> None]
    /\ hdr = [c \in Clients |-> NoHeader]
    /\ hdr_v1 = [c \in Clients |-> NoHeader]
    /\ login_cache = 0
    /\ login_v1_cache = 0
    /\ authSent = [c \in Clients |-> [p |-> FALSE, v1 |-> FALSE]]
    /\ loginOK = [c \in Clients |-> [p |-> FALSE, v1 |-> FALSE]]
    /\ curTok = [c \in Clients |-> [p |-> None, v1 |-> None]]
    /\ read = [c \in Clients |-> Unread]
    /\ supplied = [c \in Clients |-> None]
    /\ last = [op |-> "none", c |-> 0, phase |-> "call", outcome |-> "none",
               req |-> "none", auth |-> NoHeader, status |-> 0, dev |-> None,
               tok |-> None, cur |-> None, was |-> FALSE, gen |-> FALSE,
               rt |-> FALSE]


\* ------------------------------------------------------ load / save
\* load_config on a client holding (tok, tokv1, dev) with primary header h:
\* the exception raised (None: none), the attributes and the header after.
\* The three subscripts run in order, each assignment taking effect before
\* the next subscript can raise; both set_token calls act on self._sess.
LoadResult(f, tok, tokv1, dev, h) ==
    LET g1 == ConfigGet(f.obj, "token")
        g2 == ConfigGet(f.obj, "token_v1")
        g3 == ConfigGet(f.obj, "device_id")
        same == [exc |-> None, token |-> tok, token_v1 |-> tokv1,
                 device_id |-> dev, hdr |-> h]
    IN  CASE f.kind = "absent" -> same
          [] f.kind = "undecodable" -> [same EXCEPT !.exc = "JSONDecodeError"]
          [] OTHER ->
               IF g1.raised THEN [same EXCEPT !.exc = "KeyError"]
               ELSE IF g2.raised
                 THEN [same EXCEPT !.exc = "KeyError", !.token = g1.value]
               ELSE IF g3.raised
                 THEN [same EXCEPT !.exc = "KeyError", !.token = g1.value,
                                   !.token_v1 = g2.value]
               ELSE [exc |-> None, token |-> g1.value, token_v1 |-> g2.value,
                     device_id |-> g3.value,
                     hdr |-> SetHeader(SetHeader(h, g1.value), g2.value)]

\* the token load_config sets for a version: the one read when it is not
\* null, else the one set before
SetByLoad(cur, r) ==
    [p |-> IF r.exc = None /\ r.token # None THEN r.token ELSE cur.p,
     v1 |-> IF r.exc = None /\ r.token_v1 # None THEN r.token_v1 ELSE cur.v1]

\* what save_config writes for client c
Saved(c) == ConfigDict(token[c], device_id[c], token_v1[c])

\* ------------------------------------------------------ constructor
\* MEATERAPI(email, password, device_id = dev): lines 16-38
New(c, dev) ==
    /\ ctor = 0
    /\ pc[c] = "unborn"
    /\ \A d \in Clients : d < c => pc[d] # "unborn"
    /\ pc' = [pc EXCEPT ![c] = "load"]
    /\ ctor' = c
    /\ device_id' = [device_id EXCEPT ![c] = dev]
    /\ token' = [token EXCEPT ![c] = None]
    /\ token_v1' = [token_v1 EXCEPT ![c] = None]
    /\ last' = Ev("new", c, "ctor", "ok", "none", NoHeader, 0, dev, None, None, FALSE, FALSE)
    /\ supplied' = [supplied EXCEPT ![c] = dev]
    /\ UNCHANGED <<file, hdr, hdr_v1, login_cache, login_v1_cache, authSent,
                   loginOK, curTok, read>>

\* load_config, run by client c; an exception in the constructor ends it
load_config(c, okpc, errpc) ==
    LET r == LoadResult(file, token[c], token_v1[c], device_id[c], hdr[c])
    IN  /\ token' = [token EXCEPT ![c] = r.token]
        /\ token_v1' = [token_v1 EXCEPT ![c] = r.token_v1]
        /\ device_id' = [device_id EXCEPT ![c] = r.device_id]
        /\ hdr' = [hdr EXCEPT ![c] = r.hdr]
        /\ curTok' = [curTok EXCEPT ![c] = SetByLoad(curTok[c], r)]
        /\ pc' = [pc EXCEPT ![c] = IF r.exc = None THEN okpc ELSE errpc]
        /\ ctor' = IF r.exc = None /\ ctor = c THEN c ELSE 0
        /\ read' = IF ctor = c THEN [read EXCEPT ![c] = file] ELSE read
        /\ last' = Ev("load_config", c, Phase(c),
                      IF r.exc = None THEN "ok" ELSE r.exc,
                      "none", NoHeader, 0, r.device_id, None, None, FALSE, FALSE)
        /\ UNCHANGED <<file, hdr_v1, login_cache, login_v1_cache, authSent, loginOK,
                       supplied>>

CtorLoadConfig(c) ==
    /\ ctor = c
    /\ pc[c] = "load"
    /\ load_config(c, "identity", "failed")

\* an identity step that generates a device id whatever it holds
AlwaysGenerate(dev) == TRUE

\* lines 42-44
NeedsDeviceId(dev) == dev = None

CtorDeviceId(c) ==
    /\ ctor = c
    /\ pc[c] = "identity"
    /\ \E u \in FreshIds :
         LET gen == NeedsDeviceId(device_id[c])
             dev == IF gen THEN u ELSE device_id[c]
         IN  /\ device_id' = [device_id EXCEPT ![c] = dev]
             /\ last' = Ev("device_id", c, "ctor", "ok", "none", NoHeader, 0,
                           dev, None, None, FALSE, gen)
    /\ pc' = [pc EXCEPT ![c] = "login"]
    /\ UNCHANGED <<file, ctor, token, token_v1, hdr, hdr_v1, login_cache,
                   login_v1_cache, authSent, loginOK, curTok, read, supplied>>


\* ------------------------------------------------------------ login
\* login methods without memoization
CacheMiss(cache, c) == FALSE

\* a login without its early return
TokenNeverCached(tok) == FALSE

\* functools.lru_cache(maxsize=1) around a method: the key is the
\* instance, compared by identity; one cache per decorated function, shared
\* by all instances; a call that raises stores nothing.
CacheHit(cache, c) == cache = c

\* "if self._token is not None: return"
TokenCached(tok) == tok # None

\* what the caller of session.post(...).json()[member] gets for an answer
\* with status st and the given body: the hook runs first, then the decoding
Answer(st, body, member) ==
    IF raise_hook(st).exc # None
    THEN [exc |-> raise_hook(st).exc, tok |-> None]
    ELSE Extract(body, member)

\* login, lines 111-137, called by client c
login(c, okpc, errpc, okctor) ==
    IF CacheHit(login_cache, c)
    THEN /\ pc' = [pc EXCEPT ![c] = okpc]
         /\ ctor' = okctor
         /\ last' = Ev("login", c, Phase(c), "cached", "none", NoHeader, 0,
                       None, None, curTok[c].p, loginOK[c].p, FALSE)
         /\ UNCHANGED <<file, token, token_v1, device_id, hdr, hdr_v1, login_cache,
                        login_v1_cache, authSent, loginOK, curTok, read>>
    ELSE IF TokenCached(token[c])
    THEN /\ login_cache' = c
         /\ pc' = [pc EXCEPT ![c] = okpc]
         /\ ctor' = okctor
         /\ last' = Ev("login", c, Phase(c), "noop", "none", NoHeader, 0,
                       None, None, curTok[c].p, loginOK[c].p, FALSE)
         /\ UNCHANGED <<file, token, token_v1, device_id, hdr, hdr_v1,
                        login_v1_cache, authSent, loginOK, curTok, read>>
    ELSE /\ authSent' = [authSent EXCEPT ![c].p = TRUE]
         /\ \E st \in Statuses, body \in LoginBodies :
              LET a == Answer(st, body, "accessToken")
              IN  IF a.exc = None
                  THEN /\ hdr' = [hdr EXCEPT ![c] = SetHeader(@, a.tok)]
                       /\ file' = Saved(c)
                       /\ login_cache' = c
                       /\ loginOK' = [loginOK EXCEPT ![c].p = TRUE]
                       /\ curTok' = [curTok EXCEPT ![c].p = a.tok]
                       /\ pc' = [pc EXCEPT ![c] = okpc]
                       /\ ctor' = okctor
                       /\ last' = Ev("login", c, Phase(c), "ok", "POST /login",
                                     hdr[c], st, device_id[c], a.tok,
                                     curTok[c].p, loginOK[c].p, FALSE)
                  ELSE /\ pc' = [pc EXCEPT ![c] = errpc]
                       /\ ctor' = 0
                       /\ last' = Ev("login", c, Phase(c), a.exc, "POST /login",
                                     hdr[c], st, device_id[c], None,
                                     curTok[c].p, loginOK[c].p, FALSE)
                       /\ UNCHANGED <<file, hdr, login_cache, loginOK, curTok>>
         /\ UNCHANGED <<token, token_v1, device_id, hdr_v1, login_v1_cache, read>>

\* login_v1, lines 99-109, called by client c
login_v1(c, okpc, errpc) ==
    IF CacheHit(login_v1_cache, c)
    THEN /\ pc' = [pc EXCEPT ![c] = okpc]
         /\ ctor' = 0
         /\ last' = Ev("login_v1", c, Phase(c), "cached", "none", NoHeader, 0,
                       None, None, curTok[c].v1, loginOK[c].v1, FALSE)
         /\ UNCHANGED <<file, token, token_v1, device_id, hdr, hdr_v1, login_cache,
                        login_v1_cache, authSent, loginOK, curTok, read, supplied>>
    ELSE IF TokenCached(token_v1[c])
    THEN /\ login_v1_cache' = c
         /\ pc' = [pc EXCEPT ![c] = okpc]
         /\ ctor' = 0
         /\ last' = Ev("login_v1", c, Phase(c), "noop", "none", NoHeader, 0,
                       None, None, curTok[c].v1, loginOK[c].v1, FALSE)
         /\ UNCHANGED <<file, token, token_v1, device_id, hdr, hdr_v1,
                        login_cache, authSent, loginOK, curTok, read, supplied>>
    ELSE /\ authSent' = [authSent EXCEPT ![c].v1 = TRUE]
         /\ ctor' = 0
         /\ \E st \in Statuses, body \in LoginBodies :
              LET a == Answer(st, body, "dataToken")
              IN  IF a.exc = None
                  THEN /\ hdr_v1' = [hdr_v1 EXCEPT ![c] = SetHeader(@, a.tok)]
                       /\ file' = Saved(c)
                       /\ login_v1_cache' = c
                       /\ loginOK' = [loginOK EXCEPT ![c].v1 = TRUE]
                       /\ curTok' = [curTok EXCEPT ![c].v1 = a.tok]
                       /\ pc' = [pc EXCEPT ![c] = okpc]
                       /\ last' = Ev("login_v1", c, Phase(c), "ok", "POST /v1/login",
                                     hdr_v1[c], st, None, a.tok,
                                     curTok[c].v1, loginOK[c].v1, FALSE)
                  ELSE /\ pc' = [pc EXCEPT ![c] = errpc]
                       /\ last' = Ev("login_v1", c, Phase(c), a.exc, "POST /v1/login",
                                     hdr_v1[c], st, None, None,
                                     curTok[c].v1, loginOK[c].v1, FALSE)
                       /\ UNCHANGED <<file, hdr_v1, login_v1_cache, loginOK, curTok>>
         /\ UNCHANGED <<token, token_v1, device_id, hdr, login_cache, read, supplied>>

\* lines 46-47 of the constructor
CtorLogin(c) ==
    /\ ctor = c
    /\ pc[c] = "login"
    /\ login(c, "login_v1", "failed", c)
    /\ supplied' = [supplied EXCEPT ![c] = None]

CtorLoginV1(c) ==
    /\ ctor = c
    /\ pc[c] = "login_v1"
    /\ login_v1(c, "ready", "failed")

\* ------------------------------------- calls on a constructed client
Idle(c) == ctor = 0 /\ pc[c] = "ready"

Login(c) == Idle(c) /\ login(c, "ready", "ready", 0) /\ UNCHANGED supplied

LoginV1(c) == Idle(c) /\ login_v1(c, "ready", "ready")

LoadConfig(c) == Idle(c) /\ load_config(c, "ready", "ready")

SaveConfig(c) ==
    /\ Idle(c)
    /\ file' = Saved(c)
    /\ last' = Ev("save_config", c, "call", "ok", "none", NoHeader, 0,
                  device_id[c], None, None, FALSE, FALSE)
    /\ UNCHANGED <<pc, ctor, token, token_v1, device_id, hdr, hdr_v1, login_cache,
                   login_v1_cache, authSent, loginOK, curTok, read, supplied>>

\* what get_cooks / get_live_devices gives its caller: the exception, or
\* "list" for the list of models
GetOutcome(st, body) ==
    IF raise_hook(st).exc # None THEN raise_hook(st).exc ELSE Decode(body)

GetCooks(c) ==
    /\ Idle(c)
    /\ \E st \in Statuses, body \in GetBodies :
         last' = Ev("get_cooks", c, "call", GetOutcome(st, body), "GET /v2/cooks",
                    hdr[c], st, None, None, curTok[c].p, loginOK[c].p, FALSE)
    /\ UNCHANGED <<file, pc, ctor, token, token_v1, device_id, hdr, hdr_v1,
                   login_cache, login_v1_cache, authSent, loginOK, curTok, read, supplied>>

GetLiveDevices(c) ==
    /\ Idle(c)
    /\ \E st \in Statuses, body \in GetBodies :
         last' = Ev("get_live_devices", c, "call", GetOutcome(st, body),
                    "GET /v1/devices", hdr_v1[c], st, None, None, curTok[c].v1,
                    loginOK[c].v1, FALSE)
    /\ UNCHANGED <<file, pc, ctor, token, token_v1, device_id, hdr, hdr_v1,
                   login_cache, login_v1_cache, authSent, loginOK, curTok, read, supplied>>

\* ------------------------------------------------------ specifications
Step(c) ==
    \/ \E dev \in SuppliedIds \cup {None} : New(c, dev)
    \/ CtorLoadConfig(c)
    \/ CtorDeviceId(c)
    \/ CtorLogin(c)
    \/ CtorLoginV1(c)
    \/ Login(c)
    \/ LoginV1(c)
    \/ LoadConfig(c)
    \/ SaveConfig(c)
    \/ GetCooks(c)
    \/ GetLiveDevices(c)

Next == \E c \in Clients : Step(c)

Spec == Init /\ [][Next]_vars

\* a process that creates one client only
NextSingle == Step(1)

SpecSingle == Init /\ [][NextSingle]_vars


\* ------------------------------------------------------------ claims
LoginReqs == {"POST /login", "POST /v1/login"}

\* the value a config file holds under key k, None if it holds none
Persisted(f, k) ==
    IF f.kind = "object" /\ HasKey(f.obj, k) THEN JsonLoad(Lookup(f.obj, k))
    ELSE None

Malformed(f) ==
    \/ f.kind = "undecodable"
    \/ f.kind = "object" /\ \E k \in {"token", "token_v1", "device_id"} : ~HasKey(f.obj, k)

\* C1: once a token has been set for an API version (by load_config reading
\* a non-null token, or by a successful login), every request sent on that
\* version's session carries "Bearer <that token>".
C1_RequestCarriesCurrentToken ==
    (last.req # "none" /\ last.cur # None) => last.auth = Bearer(last.cur)

\* C2: after a successful login the config file holds the token extracted
\* from the answer under that version's key.
C2_LoginPersistsToken ==
    /\ (last.op = "login" /\ last.outcome = "ok")
          => Persisted(file, "token") = last.tok
    /\ (last.op = "login_v1" /\ last.outcome = "ok")
          => Persisted(file, "token_v1") = last.tok

\* C3: a POST /login answered with 401 during construction makes the
\* construction fail, and a config file that was absent stays absent.
C3_Login401FailsConstruction ==
    (last.op = "login" /\ last.phase = "ctor" /\ last.req = "POST /login"
        /\ last.status = 401)
    => /\ pc[last.c] = "failed"
       /\ read[last.c].kind = "absent" => file.kind = "absent"

\* C4: a get_cooks or get_live_devices whose answer has a non-2xx status
\* fails, whatever the body: it returns no list of models.
C4_Non2xxGetFails ==
    (last.op \in {"get_cooks", "get_live_devices"} /\ last.status \notin 200..299)
    => last.outcome # "list"

C10_NoReauthentication ==
    ~(last.req \in LoginReqs /\ last.was)


CtorOrder ==
    {<<"unborn", "load">>, <<"load", "identity">>, <<"load", "failed">>,
     <<"identity", "login">>, <<"login", "login_v1">>, <<"login", "failed">>,
     <<"login_v1", "ready">>, <<"login_v1", "failed">>}

\* C6: a constructor runs load_config, the identity step, login and login_v1
\* in this order; it sends a login POST only after the config file has been
\* read and the device id is non-null; the primary POST carries that device
\* id and is sent before the secondary one; a POST is sent for a version
\* only if the file held no non-null token for it; with both tokens in the
\* file the constructor sends no request.
C6_ConstructionOrder ==
    [][\A c \in Clients :
         /\ pc'[c] # pc[c] => <<pc[c], pc'[c]>> \in CtorOrder
         /\ (ctor = c /\ last'.c = c /\ last'.req # "none" /\ pc'[c] # pc[c])
               => /\ read[c].kind \in {"absent", "object"}
                  /\ device_id[c] # None
                  /\ last'.req \in LoginReqs
         /\ (ctor = c /\ authSent'[c].p /\ ~authSent[c].p)
               => /\ pc[c] = "login"
                  /\ last'.req = "POST /login"
                  /\ last'.dev = device_id[c]
                  /\ ~authSent[c].v1
                  /\ Persisted(read[c], "token") = None
         /\ (ctor = c /\ authSent'[c].v1 /\ ~authSent[c].v1)
               => /\ pc[c] = "login_v1"
                  /\ last'.req = "POST /v1/login"
                  /\ Persisted(read[c], "token_v1") = None
         /\ (ctor = c /\ Persisted(read'[c], "token") # None
                       /\ Persisted(read'[c], "token_v1") # None)
               => /\ ~authSent'[c].p /\ ~authSent'[c].v1
                  /\ last'.req = "none"]_vars

C6_Witness ==
    /\ last.op = "login_v1" /\ last.phase = "ctor" /\ last.req = "POST /v1/login"
    /\ authSent[last.c].p /\ authSent[last.c].v1
    /\ device_id[last.c] # None /\ pc[last.c] = "ready"

\* C7: a load_config that follows a save_config of the same client leaves
\* the client's token, token_v1 and device id as they were before the save,
\* and the file as the save wrote it.
C7_SaveLoadRoundTrip ==
    [][\A c \in Clients :
         (last.op = "save_config" /\ last.c = c
            /\ last'.op = "load_config" /\ last'.c = c)
         => /\ last'.outcome = "ok"
            /\ token'[c] = token[c]
            /\ token_v1'[c] = token_v1[c]
            /\ device_id'[c] = device_id[c]
            /\ file' = file]_vars

C7_Witness ==
    /\ last.op = "load_config" /\ last.rt /\ last.outcome = "ok"
    /\ token[last.c] = None /\ token_v1[last.c] # None
    /\ device_id[last.c] \in FreshIds \cup SuppliedIds \cup PersistedIds

\* C8: a constructor that finds a malformed config file fails with the
\* decode or key error, has sent no login POST on either session, and the
\* file is as it was.
C8_MalformedConfigFailsConstruction ==
    \A c \in Clients :
        Malformed(read[c])
        => /\ pc[c] = "failed"
           /\ ~authSent[c].p /\ ~authSent[c].v1
           /\ file = read[c]
           /\ (last.c = c /\ last.op = "load_config")
                 => last.outcome \in {"JSONDecodeError", "KeyError"}

C8_Witness ==
    \E c \in Clients :
        /\ read[c].kind = "object" /\ ~HasKey(read[c].obj, "device_id")
        /\ pc[c] = "failed" /\ last.c = c /\ last.outcome = "KeyError"

\* C9: the identity step generates a device id exactly when the config file
\* holds none and the constructor was given none; otherwise the device id is
\* the file's when a file exists and the argument when none exists; past the
\* identity step the device id is never null.
C9_DeviceIdentity ==
    /\ \A c \in Clients :
          pc[c] \in {"login", "login_v1", "ready"} => device_id[c] # None
    /\ last.op = "device_id"
          => LET c == last.c
             IN  /\ last.gen <=> (Persisted(read[c], "device_id") = None
                                    /\ supplied[c] = None)
                 /\ last.gen => device_id[c] \in FreshIds
                 /\ (~last.gen /\ read[c].kind = "object")
                       => device_id[c] = Persisted(read[c], "device_id")
                 /\ (~last.gen /\ read[c].kind = "absent")
                       => device_id[c] = supplied[c]

C9_Witness ==
    /\ last.op = "device_id" /\ last.gen
    /\ read[last.c].kind = "absent" /\ supplied[last.c] = None
    /\ device_id[last.c] \in FreshIds

====
